---- MODULE Spec2Model ----
\* Model of pkg/boot/universalpayload (utilities.go and the per-architecture
\* trampoline files): FIT metadata extraction, PE base relocation of the
\* embedded image, trampoline synthesis and HOB buffer padding.
\*
\* Unsigned machine words are kept at their width as little-endian sequences
\* of 16-bit limbs (uint32 = 2 limbs, uint64 = 4 limbs); bytes are 0..255.
EXTENDS Integers, Sequences, FiniteSets, TLC

VARIABLES
    \* relocateFdtdata(dst, fdtLoad, data) and the relocatePE walk inside it
    blob,        \* data []byte: the FIT blob, mutated in place
    fdtLoad,     \* *FdtLoad: Load, EntryStart (uint64), DataOffset, DataSize (uint32)
    dst,         \* dst uint64
    peFile,      \* what pe.NewFile makes of data[start:end]
    pc,          \* position of the call: idle, sections, header, entry, done
    status,      \* the returned error ("nil" on success, "panic" for a runtime panic)
    start,       \* start, as an index into blob
    imgLen,      \* len(data[start:end])
    delta,       \* delta uint64
    secIdx,      \* index of the section the loop of relocateFdtdata is at
    relocData,   \* relocData []byte of the running relocatePE
    rdOff,       \* read offset of bytes.NewReader(relocData)
    pageRVA,     \* pageRVA uint32 of the current block
    entryCount,  \* int(entryCount) of the current block
    entryIdx,    \* loop counter i of the entry loop
    \* history of the call, read by the properties only
    blob0,       \* blob when relocateFdtdata was called
    fdt0,        \* *fdtLoad when relocateFdtdata was called
    walk0,       \* blob when the running relocatePE was called
    log,         \* entries the running relocatePE has read, in order
    walkRet,     \* the last return of relocatePE: its error and where the reader stood
    \* getFdtInfo
    dtb, fdtOut,
    \* alignHOBLength
    alignIn, hobBuf, alignOut,
    \* constructTrampoline
    trampIn, trampOut

relocVars == <<blob, fdtLoad, dst, peFile, pc, status, start, imgLen, delta,
               secIdx, relocData, rdOff, pageRVA, entryCount, entryIdx,
               blob0, fdt0, walk0, log, walkRet>>
fdtVars   == <<dtb, fdtOut>>
alignVars == <<alignIn, hobBuf, alignOut>>
trampVars == <<trampIn, trampOut>>
vars      == <<relocVars, fdtVars, alignVars, trampVars>>

\* ------------------------------------------------------------------ words

LimbMod == 256 * 256

\* The k-limb word of a small natural number n < 2^31.
Word(n, k) == [i \in 1..k |-> IF i = 1 THEN n % LimbMod
                               ELSE IF i = 2 THEN n \div LimbMod ELSE 0]

U32(n) == Word(n, 2)
U64(n) == Word(n, 4)

\* Zero-extension (uint64(x) of a uint32 x) and truncation to k limbs.
Extend(w, k) == [i \in 1..k |-> IF i <= Len(w) THEN w[i] ELSE 0]

RECURSIVE CarryInto(_, _, _)
\* The carry out of limbs 1..i of a + b.
CarryInto(a, b, i) ==
    IF i = 0 THEN 0 ELSE (a[i] + b[i] + CarryInto(a, b, i - 1)) \div LimbMod

\* a + b modulo 2^(16 * Len(a)): Go's wrapping unsigned addition.
AddW(a, b) ==
    [i \in 1..Len(a) |-> (a[i] + b[i] + CarryInto(a, b, i - 1)) % LimbMod]

NotW(a) == [i \in 1..Len(a) |-> LimbMod - 1 - a[i]]

\* a - b modulo 2^(16 * Len(a)): Go's wrapping unsigned subtraction.
SubW(a, b) == AddW(AddW(a, NotW(b)), Word(1, Len(a)))

RECURSIVE LtFrom(_, _, _)
LtFrom(a, b, i) ==
    IF i = 0 THEN FALSE
    ELSE IF a[i] /= b[i] THEN a[i] < b[i]
    ELSE LtFrom(a, b, i - 1)

\* a < b as unsigned words of the same width.
LtW(a, b) == LtFrom(a, b, Len(a))

\* ------------------------------------------------- encoding/binary, little endian

\* binary.LittleEndian.PutUint64 / PutUint32: the bytes of a word.
LittleEndianPut(w) ==
    [k \in 1..(2 * Len(w)) |->
        IF k % 2 = 1 THEN w[(k + 1) \div 2] % 256 ELSE w[k \div 2] \div 256]

\* binary.LittleEndian.Uint64 / Uint32 / Uint16: the word of 2n bytes.
LittleEndianUint(b) ==
    [i \in 1..(Len(b) \div 2) |-> b[2 * i - 1] + 256 * b[2 * i]]

\* b[from : from+n] of a byte sequence (from is a 0-based Go index).
Slice(b, from, n) == SubSeq(b, from + 1, from + n)

\* ------------------------------------------------------- utilities.go: constants

IMAGE_REL_BASED_ABSOLUTE == 0
IMAGE_REL_BASED_HIGHLOW == 3
IMAGE_REL_BASED_DIR64 == 10

ErrPeFailToGetPageRVA == "ErrPeFailToGetPageRVA"
ErrPeFailToGetBlockSize == "ErrPeFailToGetBlockSize"
ErrPeFailToGetEntry == "ErrPeFailToGetEntry"
ErrPeFailToCreatePeFile == "ErrPeFailToCreatePeFile"
ErrPeFailToGetRelocData == "ErrPeFailToGetRelocData"
ErrPeUnsupportedPeHeader == "ErrPeUnsupportedPeHeader"
ErrPeRelocOutOfBound == "ErrPeRelocOutOfBound"

\* A runtime panic of the Go program (slice bounds, index out of range).
Panic == "panic"

\* ------------------------------------------------------------- relocatePE

\* binary.Read of the block header with n bytes left in the reader: io.EOF on
\* the first read ends the walk, any other short read is an error.
HeaderReadEOFOnShort(n) ==
    IF n < 4 THEN "EOF"
    ELSE IF n < 8 THEN ErrPeFailToGetBlockSize
    ELSE "ok"

HeaderRead(n) ==
    IF n = 0 THEN "EOF"
    ELSE IF n < 4 THEN ErrPeFailToGetPageRVA
    ELSE IF n < 8 THEN ErrPeFailToGetBlockSize
    ELSE "ok"

\* entryCount := (blockSize - 8) / 2 in uint32, then int(entryCount).
EntryCount(blockSize) ==
    LET d == SubW(blockSize, U32(8)) IN d[2] * (LimbMod \div 2) + d[1] \div 2

\* entryType := entry >> 12 ; entryOffset := entry & 0xfff
EntryType(e) == e \div 4096
EntryOffset(e) == e % 4096

\* relocAddr := pageRVA + uint32(entryOffset)
RelocAddr(page, e) == AddW(page, U32(EntryOffset(e)))

\* relocAddr >= uint32(len(data)), for a data length below 2^16.
OutOfBound(addr, n) == addr[2] > 0 \/ addr[1] >= n

\* binary.LittleEndian.Uint64(b) and PutUint64(b, v) index b[7]: they need
\* len(b) >= 8 whatever cap(b) is, and panic otherwise.
Uint64InRangeByCap(sliceLen, sliceCap) == sliceCap >= 8

Uint64InRange(sliceLen, sliceCap) == sliceLen >= 8

\* relocatedValue := originalValue + delta
RelocatedValueNoCarry(originalValue, d) ==
    [k \in 1..4 |-> (originalValue[k] + d[k]) % LimbMod]

RelocatedValue(originalValue, d) == AddW(originalValue, d)

\* The blob after PutUint64(data[relocAddr:], v), data being blob[st : st+n].
PutUint64At(b, st, addr, v) ==
    LET bytes == LittleEndianPut(v) IN
    [k \in 1..Len(b) |->
        IF k - 1 >= st + addr /\ k - 1 < st + addr + 8
        THEN bytes[k - st - addr] ELSE b[k]]

\* The uint16 the reader stands at.
CurEntry == LittleEndianUint(Slice(relocData, rdOff, 2))[1]

CurAddr == RelocAddr(pageRVA, CurEntry)

LogEntry(applied) ==
    Append(log, [type |-> EntryType(CurEntry), addr |-> CurAddr, applied |-> applied])

\* return err, out of relocatePE and then out of relocateFdtdata (line 359).
ReturnErrorAfterUpdate(e) ==
    /\ pc' = "done"
    /\ status' = e
    /\ fdtLoad' = [fdtLoad EXCEPT !.Load = dst]

ReturnError(e) ==
    /\ pc' = "done"
    /\ status' = e
    /\ fdtLoad' = fdtLoad

\* The for loop's i++ and its condition i < int(entryCount).
AfterEntry ==
    /\ rdOff' = rdOff + 2
    /\ entryIdx' = entryIdx + 1
    /\ pc' = IF entryIdx + 1 < entryCount THEN "entry" ELSE "header"

WalkFrame == UNCHANGED <<dst, peFile, start, imgLen, delta, secIdx, relocData,
                         blob0, fdt0, walk0>>

\* The header read meets the end of the stream: break, return nil.
WalkEnd ==
    /\ pc = "header"
    /\ HeaderRead(Len(relocData) - rdOff) = "EOF"
    /\ pc' = "sections"
    /\ secIdx' = secIdx + 1
    /\ walkRet' = [err |-> "nil", at |-> "header", left |-> Len(relocData) - rdOff]
    /\ UNCHANGED <<blob, fdtLoad, dst, peFile, status, start, imgLen, delta,
                   relocData, rdOff, pageRVA, entryCount, entryIdx,
                   blob0, fdt0, walk0, log>>

\* The header read is short.
HeaderError ==
    /\ pc = "header"
    /\ HeaderRead(Len(relocData) - rdOff) \notin {"EOF", "ok"}
    /\ ReturnError(HeaderRead(Len(relocData) - rdOff))
    /\ walkRet' = [err |-> HeaderRead(Len(relocData) - rdOff), at |-> "header",
                   left |-> Len(relocData) - rdOff]
    /\ WalkFrame
    /\ UNCHANGED <<blob, rdOff, pageRVA, entryCount, entryIdx, log>>

\* Both header fields are read.
ReadHeader ==
    /\ pc = "header"
    /\ HeaderRead(Len(relocData) - rdOff) = "ok"
    /\ LET blockSize == LittleEndianUint(Slice(relocData, rdOff + 4, 4)) IN
        /\ pageRVA' = LittleEndianUint(Slice(relocData, rdOff, 4))
        /\ entryCount' = EntryCount(blockSize)
        /\ pc' = IF EntryCount(blockSize) > 0 THEN "entry" ELSE "header"
    /\ rdOff' = rdOff + 8
    /\ entryIdx' = 0
    /\ WalkFrame
    /\ UNCHANGED <<blob, fdtLoad, status, log, walkRet>>

\* The entry read is short.
EntryShort ==
    /\ pc = "entry"
    /\ Len(relocData) - rdOff < 2
    /\ ReturnError(ErrPeFailToGetEntry)
    /\ walkRet' = [err |-> ErrPeFailToGetEntry, at |-> "entry",
                   left |-> Len(relocData) - rdOff]
    /\ WalkFrame
    /\ UNCHANGED <<blob, rdOff, pageRVA, entryCount, entryIdx, log>>

\* An entry of another type than DIR64 is read and passed over.
EntrySkip ==
    /\ pc = "entry"
    /\ Len(relocData) - rdOff >= 2
    /\ EntryType(CurEntry) /= IMAGE_REL_BASED_DIR64
    /\ log' = LogEntry(FALSE)
    /\ AfterEntry
    /\ WalkFrame
    /\ UNCHANGED <<blob, fdtLoad, status, pageRVA, entryCount, walkRet>>

\* A DIR64 entry at or past the end of the image data.
EntryOutOfBound ==
    /\ pc = "entry"
    /\ Len(relocData) - rdOff >= 2
    /\ EntryType(CurEntry) = IMAGE_REL_BASED_DIR64
    /\ OutOfBound(CurAddr, imgLen)
    /\ ReturnError(ErrPeRelocOutOfBound)
    /\ log' = LogEntry(FALSE)
    /\ walkRet' = [err |-> ErrPeRelocOutOfBound, at |-> "entry",
                   left |-> Len(relocData) - rdOff]
    /\ WalkFrame
    /\ UNCHANGED <<blob, rdOff, pageRVA, entryCount, entryIdx>>

\* A DIR64 entry inside the image data with fewer than 8 bytes after it:
\* binary.LittleEndian.Uint64(data[relocAddr:]) panics.
EntryPanic ==
    /\ pc = "entry"
    /\ Len(relocData) - rdOff >= 2
    /\ EntryType(CurEntry) = IMAGE_REL_BASED_DIR64
    /\ ~OutOfBound(CurAddr, imgLen)
    /\ ~Uint64InRange(imgLen - CurAddr[1], Len(blob) - start - CurAddr[1])
    /\ ReturnError(Panic)
    /\ log' = LogEntry(FALSE)
    /\ walkRet' = [err |-> Panic, at |-> "entry", left |-> Len(relocData) - rdOff]
    /\ WalkFrame
    /\ UNCHANGED <<blob, rdOff, pageRVA, entryCount, entryIdx>>

\* A DIR64 entry is applied: read, add delta, write back.
EntryRelocate ==
    /\ pc = "entry"
    /\ Len(relocData) - rdOff >= 2
    /\ EntryType(CurEntry) = IMAGE_REL_BASED_DIR64
    /\ ~OutOfBound(CurAddr, imgLen)
    /\ Uint64InRange(imgLen - CurAddr[1], Len(blob) - start - CurAddr[1])
    /\ LET originalValue == LittleEndianUint(Slice(blob, start + CurAddr[1], 8)) IN
        blob' = PutUint64At(blob, start, CurAddr[1], RelocatedValue(originalValue, delta))
    /\ log' = LogEntry(TRUE)
    /\ AfterEntry
    /\ WalkFrame
    /\ UNCHANGED <<fdtLoad, status, pageRVA, entryCount, walkRet>>

\* --------------------------------------------------------- relocateFdtdata

\* data[start:end] is in range: start <= end <= len(data), the blob's capacity
\* being its length.
SliceInRange(st, en, n) == ~LtW(en, st) /\ en[2] = 0 /\ en[1] <= n

\* delta := dst + uint64(fdtLoad.DataOffset) - preBase
DeltaWithoutOffset(d, off, preBase) == SubW(d, preBase)

Delta(d, off, preBase) == SubW(AddW(d, Extend(off, 4)), preBase)

\* fdtLoad.EntryStart = dst + (fdtLoad.EntryStart - fdtLoad.Load)
NewEntryStartAfterLoad(d, f) == AddW(d, SubW(f.EntryStart, d))

NewEntryStart(d, f) == AddW(d, SubW(f.EntryStart, f.Load))

\* section.Data(): the section's bytes read out of the image, an error when
\* the section's range does not lie in it.
SectionDataFails(sec) == sec.Offset + sec.Size > imgLen

SectionData(sec) == Slice(blob, start + sec.Offset, sec.Size)

\* Lines 332-349: slice the image, parse it, take ImageBase, compute delta.
Call ==
    /\ pc = "idle"
    /\ LET st == fdtLoad.DataOffset
           en == AddW(fdtLoad.DataOffset, fdtLoad.DataSize)
       IN
        IF ~SliceInRange(st, en, Len(blob))
        THEN /\ ReturnError(Panic)
             /\ UNCHANGED <<start, imgLen, delta>>
        ELSE /\ start' = st[1]
             /\ imgLen' = en[1] - st[1]
             /\ IF peFile.Parse /= "ok"
                THEN ReturnError(ErrPeFailToCreatePeFile) /\ delta' = delta
                ELSE IF ~peFile.Is64
                THEN ReturnError(ErrPeUnsupportedPeHeader) /\ delta' = delta
                ELSE /\ delta' = Delta(dst, fdtLoad.DataOffset, peFile.ImageBase)
                     /\ pc' = "sections"
                     /\ UNCHANGED <<status, fdtLoad>>
    /\ secIdx' = 1
    /\ blob0' = blob
    /\ fdt0' = fdtLoad
    /\ UNCHANGED <<blob, dst, peFile, relocData, rdOff, pageRVA, entryCount,
                   entryIdx, walk0, log, walkRet>>

SectionFrame == UNCHANGED <<blob, dst, peFile, start, imgLen, delta, pageRVA,
                            entryCount, entryIdx, blob0, fdt0, walkRet>>

\* A section whose name is not .reloc.
SkipSection ==
    /\ pc = "sections"
    /\ secIdx <= Len(peFile.Sections)
    /\ peFile.Sections[secIdx].Name /= ".reloc"
    /\ secIdx' = secIdx + 1
    /\ SectionFrame
    /\ UNCHANGED <<pc, status, fdtLoad, relocData, rdOff, walk0, log>>

\* section.Data() of a .reloc section fails.
RelocDataError ==
    /\ pc = "sections"
    /\ secIdx <= Len(peFile.Sections)
    /\ peFile.Sections[secIdx].Name = ".reloc"
    /\ SectionDataFails(peFile.Sections[secIdx])
    /\ ReturnError(ErrPeFailToGetRelocData)
    /\ SectionFrame
    /\ UNCHANGED <<secIdx, relocData, rdOff, walk0, log>>

\* relocatePE(relocData, delta, data[start:end]) is entered.
EnterRelocatePE ==
    /\ pc = "sections"
    /\ secIdx <= Len(peFile.Sections)
    /\ peFile.Sections[secIdx].Name = ".reloc"
    /\ ~SectionDataFails(peFile.Sections[secIdx])
    /\ relocData' = SectionData(peFile.Sections[secIdx])
    /\ rdOff' = 0
    /\ pc' = "header"
    /\ walk0' = blob
    /\ log' = <<>>
    /\ SectionFrame
    /\ UNCHANGED <<secIdx, status, fdtLoad>>

\* Lines 364-367: every section is done; rebase EntryStart and Load.
Finish ==
    /\ pc = "sections"
    /\ secIdx > Len(peFile.Sections)
    /\ fdtLoad' = [fdtLoad EXCEPT !.EntryStart = NewEntryStart(dst, fdtLoad),
                                  !.Load = dst]
    /\ status' = "nil"
    /\ pc' = "done"
    /\ SectionFrame
    /\ UNCHANGED <<secIdx, relocData, rdOff, walk0, log>>

\* ------------------------------------------------ inputs of relocateFdtdata

\* Bounds of the model.
MaxEntries == 2
TargetLen == 16
SuffixLen == 8
MaxPrefix == 3

\* The image: TargetLen bytes of relocation targets, then the area that holds
\* the .reloc section's bytes.
RelocAreaLen == 2 * (8 + 2 * MaxEntries)
ImgLen == TargetLen + RelocAreaLen

\* A uint16 relocation entry: 4-bit type, 12-bit offset.
Entry(type, off) == type * 4096 + off

\* One relocation block as bytes: page_rva, block_size, the entries.
Block(page, blockSize, es) ==
    LittleEndianPut(page) \o LittleEndianPut(blockSize) \o LittleEndianPut(es)

SeqsUpTo(S, n) == UNION {[1..m -> S] : m \in 0..n}

\* DIR64 entries at the start, overlapping, at the last valid address, in the
\* last seven bytes and at the end of the image; entries of other types.
EntrySet ==
    {Entry(IMAGE_REL_BASED_DIR64, off) :
        off \in {0, 4, 8, ImgLen - 8, ImgLen - 7, ImgLen - 1, ImgLen}}
    \cup {Entry(IMAGE_REL_BASED_ABSOLUTE, 0), Entry(IMAGE_REL_BASED_HIGHLOW, 8),
          Entry(5, 4)}

SmallEntrySet == {Entry(IMAGE_REL_BASED_DIR64, 0), Entry(IMAGE_REL_BASED_DIR64, 8),
                  Entry(IMAGE_REL_BASED_ABSOLUTE, 0)}

PageRVAs == {U32(0), U32(8), <<LimbMod - 8, LimbMod - 1>>}

Junk(n) == [k \in 1..n |-> 170]

\* One well-formed block at page 0.
OneBlockStreams ==
    {Block(U32(0), U32(8 + 2 * Len(es)), es) : es \in SeqsUpTo(EntrySet, MaxEntries)}

SmallBlocks ==
    {Block(page, U32(8 + 2 * Len(es)), es) :
        page \in PageRVAs, es \in SeqsUpTo(SmallEntrySet, 1)}

\* Two well-formed blocks, pages 0, 8 and 2^32 - 8.
TwoBlockStreams == {b1 \o b2 : b1 \in SmallBlocks, b2 \in SmallBlocks}

\* Block sizes that do not match the bytes that follow, and 0 to 7 bytes
\* where the next header would start.
MalformedStreams ==
    UNION {{Block(U32(0), blockSize, es) \o Junk(n) :
                n \in 0..7,
                blockSize \in {U32(0), U32(7), U32(8 + 2 * Len(es)),
                               U32(9 + 2 * Len(es)), U32(10 + 2 * Len(es)),
                               <<LimbMod - 1, LimbMod - 1>>}} :
            es \in SeqsUpTo(SmallEntrySet, 1)}
    \cup {Junk(n) : n \in 0..7}

\* A block whose block_size announces one entry more than the stream holds.
ShortBlockStreams ==
    {Block(U32(0), U32(10 + 2 * Len(es)), es) : es \in SeqsUpTo(SmallEntrySet, MaxEntries)}

Streams == OneBlockStreams \cup TwoBlockStreams \cup MalformedStreams
           \cup ShortBlockStreams

FewStreams == {<< >>, Block(U32(0), U32(10), <<Entry(IMAGE_REL_BASED_DIR64, 0)>>)}

TargetByte(k) == IF k < 8 THEN 255 ELSE (k * 37 + 1) % 256

Image(stream) ==
    [k \in 1..ImgLen |->
        IF k <= TargetLen THEN TargetByte(k - 1)
        ELSE IF k - TargetLen <= Len(stream) THEN stream[k - TargetLen]
        ELSE 0]

\* The FIT blob: bytes before the image, the image, bytes after it.
MkBlob(prefixLen, stream) ==
    [k \in 1..prefixLen |-> 238] \o Image(stream) \o [k \in 1..SuffixLen |-> 221]

\* 0x10000000, 0x800000 and 2^64 - 0x1000.
Dsts == {<<0, 4096, 0, 0>>, <<0, 128, 0, 0>>,
         <<LimbMod - 4096, LimbMod - 1, LimbMod - 1, LimbMod - 1>>}

\* load = 0x800000 with entry-start = 0x805ac3, and with an entry below load.
Placements == {[Load |-> <<0, 128, 0, 0>>, EntryStart |-> <<23235, 128, 0, 0>>],
               [Load |-> <<0, 128, 0, 0>>, EntryStart |-> <<16, 0, 0, 0>>]}

\* ImageBase values that make delta large, 0, 1 and 2^64 - 1.
ImageBases(d, off) ==
    {<<0, 128, 0, 0>>, AddW(d, U64(off)), SubW(AddW(d, U64(off)), U64(1)),
     AddW(AddW(d, U64(off)), U64(1))}

TextSection == [Name |-> ".text", Offset |-> 0, Size |-> TargetLen]
RelocSection(n) == [Name |-> ".reloc", Offset |-> TargetLen, Size |-> n]

Layouts(n) ==
    {<< >>, <<TextSection>>, <<RelocSection(n), RelocSection(n)>>,
     <<RelocSection(RelocAreaLen + 1)>>, <<RelocSection(n), RelocSection(RelocAreaLen + 1)>>}

\* A parsed image with a 64-bit optional header and the given section table.
Pe64(base, secs) ==
    [Parse |-> "ok", Is64 |-> TRUE, ImageBase |-> base, Sections |-> secs]

\* The arguments of one call: the blob with the image at data-offset off, the
\* placement, dst, and what pe.NewFile makes of the image.
Given(off, size, stream, d, pl, pe) ==
    /\ blob = MkBlob(off, stream)
    /\ fdtLoad = [Load |-> pl.Load, EntryStart |-> pl.EntryStart,
                  DataOffset |-> U32(off), DataSize |-> size]
    /\ dst = d
    /\ peFile = pe

\* A parsed 64-bit image with a .text and a .reloc section.
MainInputs ==
    \E off \in {0, MaxPrefix}, d \in Dsts, pl \in Placements, stream \in Streams :
        \E base \in ImageBases(d, off) :
            Given(off, U32(ImgLen), stream, d, pl,
                  Pe64(base, <<TextSection, RelocSection(Len(stream))>>))

\* Other section tables.
LayoutInputs ==
    \E off \in {0, MaxPrefix}, d \in Dsts, pl \in Placements, stream \in FewStreams :
        \E secs \in Layouts(Len(stream)) :
            Given(off, U32(ImgLen), stream, d, pl, Pe64(<<0, 128, 0, 0>>, secs))

\* Images pe.NewFile rejects or that hold no 64-bit optional header.
PeFailInputs ==
    \E off \in {0, MaxPrefix}, d \in Dsts, pl \in Placements, stream \in FewStreams :
        \E parse \in {"ok", "fail"}, is64 \in BOOLEAN :
            Given(off, U32(ImgLen), stream, d, pl,
                  [Parse |-> parse, Is64 |-> is64, ImageBase |-> <<0, 128, 0, 0>>,
                   Sections |-> <<TextSection, RelocSection(Len(stream))>>])

\* data-offset and data-size that reach past the blob or wrap around.
SliceInputs ==
    \E off \in {0, MaxPrefix}, d \in Dsts, pl \in Placements, stream \in FewStreams :
        \E size \in {U32(ImgLen + SuffixLen), U32(ImgLen + SuffixLen + 1),
                     <<LimbMod - 1, LimbMod - 1>>} :
            Given(off, size, stream, d, pl,
                  Pe64(<<0, 128, 0, 0>>, <<TextSection, RelocSection(Len(stream))>>))

Inputs == MainInputs \/ LayoutInputs \/ PeFailInputs \/ SliceInputs

\* ------------------------------------------------------------ specification

NoWalk == [err |-> "none", at |-> "none", left |-> 0]

RelocInit ==
    /\ Inputs
    /\ blob0 = blob
    /\ fdt0 = fdtLoad
    /\ walk0 = blob
    /\ pc = "idle"
    /\ status = "running"
    /\ start = 0
    /\ imgLen = 0
    /\ delta = U64(0)
    /\ secIdx = 1
    /\ relocData = << >>
    /\ rdOff = 0
    /\ pageRVA = U32(0)
    /\ entryCount = 0
    /\ entryIdx = 0
    /\ log = << >>
    /\ walkRet = NoWalk

OthersIdle ==
    /\ dtb = "unused" /\ fdtOut = "unused"
    /\ alignIn = "unused" /\ hobBuf = << >> /\ alignOut = "unused"
    /\ trampIn = "unused" /\ trampOut = << >>

Init == RelocInit /\ OthersIdle

Next ==
    \/ (Call /\ UNCHANGED <<fdtVars, alignVars, trampVars>>)
    \/ (SkipSection /\ UNCHANGED <<fdtVars, alignVars, trampVars>>)
    \/ (RelocDataError /\ UNCHANGED <<fdtVars, alignVars, trampVars>>)
    \/ (EnterRelocatePE /\ UNCHANGED <<fdtVars, alignVars, trampVars>>)
    \/ (Finish /\ UNCHANGED <<fdtVars, alignVars, trampVars>>)
    \/ (WalkEnd /\ UNCHANGED <<fdtVars, alignVars, trampVars>>)
    \/ (HeaderError /\ UNCHANGED <<fdtVars, alignVars, trampVars>>)
    \/ (ReadHeader /\ UNCHANGED <<fdtVars, alignVars, trampVars>>)
    \/ (EntryShort /\ UNCHANGED <<fdtVars, alignVars, trampVars>>)
    \/ (EntrySkip /\ UNCHANGED <<fdtVars, alignVars, trampVars>>)
    \/ (EntryOutOfBound /\ UNCHANGED <<fdtVars, alignVars, trampVars>>)
    \/ (EntryPanic /\ UNCHANGED <<fdtVars, alignVars, trampVars>>)
    \/ (EntryRelocate /\ UNCHANGED <<fdtVars, alignVars, trampVars>>)

Spec == Init /\ [][Next]_vars

\* ------------------------------------------------- properties of relocation

\* The uint64 at image address a of blob b.
ValueAt(b, a) == LittleEndianUint(Slice(b, start + a, 8))

\* The image addresses of the 8-byte target of a logged entry.
TargetIdx(e) ==
    IF e.addr[2] = 0
    THEN {k \in 0..(imgLen - 1) : k >= e.addr[1] /\ k < e.addr[1] + 8}
    ELSE {}

IsDir64(e) == e.type = IMAGE_REL_BASED_DIR64

\* The image addresses some DIR64 entry of the log targets.
Dir64Idx == UNION {TargetIdx(log[j]) : j \in {m \in DOMAIN log : IsDir64(log[m])}}

\* The image addresses some applied fixup of the log has written.
AppliedIdx == UNION {TargetIdx(log[j]) : j \in {m \in DOMAIN log : log[m].applied}}

\* No other applied fixup of the log targets a byte of entry j's target.
Alone(j) ==
    \A k \in DOMAIN log :
        (k /= j /\ log[k].applied) => TargetIdx(log[j]) \cap TargetIdx(log[k]) = {}

\* relocatePE has returned nil and nothing has touched the blob since.
WalkSucceeded == walkRet.err = "nil" /\ pc \in {"sections", "done"}

\* relocatePE has returned an error (or panicked) out of relocateFdtdata.
WalkFailed == walkRet.err \notin {"nil", "none"} /\ pc = "done"

\* C1 as stated, for the DIR64 entries: after relocatePE has run with delta D,
\* every 64-bit value a DIR64 entry addresses equals its original value + D
\* modulo 2^64.
C1_AsStated ==
    WalkSucceeded =>
        \A j \in DOMAIN log : IsDir64(log[j]) =>
            ValueAt(blob, log[j].addr[1]) = AddW(ValueAt(walk0, log[j].addr[1]), delta)

\* C1 amended: after relocatePE has returned nil, every DIR64 target that
\* overlaps no other DIR64 entry's target holds its original value + delta
\* modulo 2^64; entries of other types are passed over without error and
\* their target bytes are untouched wherever no DIR64 target covers them.
C1_Relocated ==
    WalkSucceeded =>
        /\ \A j \in DOMAIN log : (IsDir64(log[j]) /\ Alone(j)) =>
              /\ log[j].applied
              /\ ValueAt(blob, log[j].addr[1])
                    = AddW(ValueAt(walk0, log[j].addr[1]), delta)
        /\ \A j \in DOMAIN log : ~IsDir64(log[j]) =>
              /\ ~log[j].applied
              /\ \A k \in TargetIdx(log[j]) \ Dir64Idx :
                    blob[start + k + 1] = walk0[start + k + 1]

\* A successful walk of one DIR64 entry and one entry of another type, delta
\* not zero, the DIR64 target holding 2^64 - 1 before the walk.
C1_Witness ==
    /\ WalkSucceeded
    /\ delta /= U64(0)
    /\ Len(log) = 2
    /\ IsDir64(log[1]) /\ Alone(1) /\ ~IsDir64(log[2])
    /\ ValueAt(walk0, log[1].addr[1]) = <<LimbMod - 1, LimbMod - 1, LimbMod - 1, LimbMod - 1>>

\* addr + 8 > len(image_data), for the uint32 addr of a logged entry.
PastEnd(e) == e.addr[2] > 0 \/ e.addr[1] + 8 > imgLen

\* C2 as stated: a DIR64 entry with addr + 8 > len(image_data) makes the walk
\* return ErrPeRelocOutOfBound, with no read or write for that entry; this
\* includes every addr in the last seven bytes of the image data.
C2_OutOfBoundReported ==
    \A j \in DOMAIN log : (IsDir64(log[j]) /\ PastEnd(log[j])) =>
        /\ ~log[j].applied
        /\ pc = "done"
        /\ status = ErrPeRelocOutOfBound

\* C3: after a successful relocateFdtdata, Load = dst and EntryStart =
\* dst + (old EntryStart - old Load), so EntryStart - Load modulo 2^64 is what
\* it was before the call; DataOffset and DataSize are unchanged. For load
\* 0x800000, entry-start 0x805ac3 and dst 0x10000000 the entry is 0x10005ac3.
C3_Rebased ==
    (pc = "done" /\ status = "nil") =>
        /\ fdtLoad.Load = dst
        /\ fdtLoad.EntryStart = AddW(dst, SubW(fdt0.EntryStart, fdt0.Load))
        /\ SubW(fdtLoad.EntryStart, fdtLoad.Load) = SubW(fdt0.EntryStart, fdt0.Load)
        /\ fdtLoad.DataOffset = fdt0.DataOffset
        /\ fdtLoad.DataSize = fdt0.DataSize
        /\ (dst = <<0, 4096, 0, 0>> /\ fdt0.Load = <<0, 128, 0, 0>>
              /\ fdt0.EntryStart = <<23235, 128, 0, 0>>)
           => fdtLoad.EntryStart = <<23235, 4096, 0, 0>>

\* A successful call that moves the image, the entry lying below the old load.
C3_Witness ==
    /\ pc = "done" /\ status = "nil"
    /\ dst /= fdt0.Load
    /\ LtW(fdt0.EntryStart, fdt0.Load)
    /\ blob /= blob0

\* C4 as stated: with dst equal to the original load, whatever image_base and
\* data_offset are, every DIR64 target keeps its bytes and load and
\* entry_start are unchanged.
C4_AsStated ==
    (pc = "done" /\ status = "nil" /\ dst = fdt0.Load) =>
        /\ \A j \in DOMAIN log : log[j].applied =>
              ValueAt(blob, log[j].addr[1]) = ValueAt(blob0, log[j].addr[1])
        /\ fdtLoad.Load = fdt0.Load
        /\ fdtLoad.EntryStart = fdt0.EntryStart

\* C4 amended: when image_base = dst + data_offset (delta is zero) the call
\* leaves every byte of the blob, so every DIR64 target, unchanged; when dst
\* equals the original load a successful call leaves load and entry_start
\* unchanged.
C4_ZeroDelta ==
    /\ (pc /= "idle" /\ peFile.ImageBase = AddW(dst, Extend(fdt0.DataOffset, 4)))
          => blob = blob0
    /\ (pc = "done" /\ status = "nil" /\ dst = fdt0.Load) =>
          /\ fdtLoad.Load = fdt0.Load
          /\ fdtLoad.EntryStart = fdt0.EntryStart

\* A successful call with dst = load, image_base = dst + data_offset, the
\* image not at the start of the blob, and a DIR64 fixup applied.
C4_Witness ==
    /\ pc = "done" /\ status = "nil"
    /\ dst = fdt0.Load
    /\ start > 0
    /\ peFile.ImageBase = AddW(dst, Extend(fdt0.DataOffset, 4))
    /\ \E j \in DOMAIN log : log[j].applied

\* C5: relocatePE returns nil exactly when a header read finds zero bytes
\* left; 1 to 3 bytes left there give ErrPeFailToGetPageRVA and 4 to 7 give
\* ErrPeFailToGetBlockSize; fewer than 2 bytes left where an entry of the
\* block is still to be read give ErrPeFailToGetEntry.
C5_WalkerOutcome ==
    walkRet.err /= "none" =>
        /\ walkRet.err = "nil" <=> (walkRet.at = "header" /\ walkRet.left = 0)
        /\ (walkRet.at = "header" /\ walkRet.left \in 1..3)
              => walkRet.err = ErrPeFailToGetPageRVA
        /\ (walkRet.at = "header" /\ walkRet.left \in 4..7)
              => walkRet.err = ErrPeFailToGetBlockSize
        /\ walkRet.at = "header" => walkRet.left < 8
        /\ (walkRet.at = "entry" /\ walkRet.left < 2)
              => walkRet.err = ErrPeFailToGetEntry

\* A walk over two blocks with an applied fixup ends at the block boundary.
C5_Witness ==
    /\ walkRet.err = "nil"
    /\ Len(relocData) = 20
    /\ rdOff = Len(relocData)
    /\ \E j \in DOMAIN log : log[j].applied

\* Byte n of the blob lies outside [data_offset, data_offset + data_size).
OutsideImage(n) ==
    \/ n < fdt0.DataOffset[1]
    \/ fdt0.DataSize[2] = 0 /\ n >= fdt0.DataOffset[1] + fdt0.DataSize[1]

\* C9: in every state of a call of relocateFdtdata, whether it succeeds, fails
\* or panics, the blob keeps its length and every byte at an index outside
\* [data_offset, data_offset + data_size) is unchanged.
C9_Frame ==
    /\ Len(blob) = Len(blob0)
    /\ \A k \in 1..Len(blob) : OutsideImage(k - 1) => blob[k] = blob0[k]

\* A fixup has been written to the last 8 bytes of an image that has blob
\* bytes before and after it.
C9_Witness ==
    /\ start > 0
    /\ start + imgLen < Len(blob)
    /\ blob /= blob0
    /\ \E j \in DOMAIN log : log[j].applied /\ log[j].addr[1] = imgLen - 8

\* C10 as stated, at a failed walk: the target of every DIR64 entry processed
\* before the failing one holds its original value + delta, and load and
\* entry_start hold their pre-call values.
C10_AsStated ==
    WalkFailed =>
        /\ \A j \in DOMAIN log : log[j].applied =>
              ValueAt(blob, log[j].addr[1]) = AddW(ValueAt(walk0, log[j].addr[1]), delta)
        /\ fdtLoad = fdt0

\* The one step that may write *fdtLoad: the return after the section loop.
FinalUpdate ==
    /\ pc = "sections" /\ secIdx > Len(peFile.Sections)
    /\ fdtLoad = fdt0
    /\ pc' = "done" /\ status' = "nil"

\* C10 amended: when the walk fails at an entry or at a header, every fixup
\* applied before it is in place (a target no other applied fixup overlaps
\* holds its original value + delta), no byte outside the applied targets has
\* changed, so nothing at or after the failing entry was applied, and load
\* and entry_start hold their pre-call values; they are written at most
\* once per call, by the return that follows the whole walk.
C10_NotTransactional ==
    /\ [](WalkFailed =>
            /\ \A j \in DOMAIN log : (log[j].applied /\ Alone(j)) =>
                  ValueAt(blob, log[j].addr[1])
                      = AddW(ValueAt(walk0, log[j].addr[1]), delta)
            /\ \A k \in (0..(imgLen - 1)) \ AppliedIdx :
                  blob[start + k + 1] = walk0[start + k + 1]
            /\ walkRet.err \in {ErrPeRelocOutOfBound, Panic}
                  => (Len(log) > 0 /\ ~log[Len(log)].applied)
            /\ fdtLoad = fdt0)
    /\ []((pc = "done" /\ status /= "nil") => fdtLoad = fdt0)
    /\ [][fdtLoad' /= fdtLoad => FinalUpdate]_vars

\* A walk that applied a fixup and then failed at an entry out of bounds, in
\* a call that would have moved the image.
C10_Witness ==
    /\ WalkFailed
    /\ walkRet.err = ErrPeRelocOutOfBound
    /\ Len(log) = 2 /\ log[1].applied /\ Alone(1)
    /\ delta /= U64(0)
    /\ dst /= fdt0.Load
    /\ blob /= blob0

\* The header of the block the reader is in: it lies 8 bytes and the entries
\* read so far before the reader.
CurHeaderOff == rdOff - 8 - 2 * entryIdx

\* blockSize as read from that header.
CurBlockSize == LittleEndianUint(Slice(relocData, CurHeaderOff + 4, 4))

\* The walker stands in a block: it is about to read one of its entries, or
\* it has returned from there.
InBlock == pc = "entry" \/ (pc = "done" /\ walkRet.at = "entry")

\* C11: a block header with block_size < 8, the terminator page_rva = 0,
\* block_size = 0 included, covers no entries: the walker never reads a
\* byte after such a header as an entry of its block, and so reports no
\* error from such a block.
C11_ShortBlockCoversNoEntries ==
    InBlock => ~LtW(CurBlockSize, U32(8))

\* ------------------------------------------------------------- getFdtInfo

ErrFailToReadFdtFile == "ErrFailToReadFdtFile"
ErrNodeImagesNotFound == "ErrNodeImagesNotFound"
ErrNodeTianocoreNotFound == "ErrNodeTianocoreNotFound"
ErrNodeLoadNotFound == "ErrNodeLoadNotFound"
ErrNodeEntryStartNotFound == "ErrNodeEntryStartNotFound"
ErrNodeDataOffsetNotFound == "ErrNodeDataOffsetNotFound"
ErrNodeDataSizeNotFound == "ErrNodeDataSizeNotFound"
ErrFailToConvertLoad == "ErrFailToConvertLoad"
ErrFailToConvertEntryStart == "ErrFailToConvertEntryStart"
ErrFailToConvertDataOffset == "ErrFailToConvertDataOffset"
ErrFailToConvertDataSize == "ErrFailToConvertDataSize"

LoadAddrPropertyName == "load"
EntryAddrPropertyName == "entry-start"
DataOffsetPropertyName == "data-offset"
DataSizePropertyName == "data-size"

\* The device-tree library (pkg/dt): node lookup by name and property lookup
\* by name return found or not found; the typed accessors decode a property
\* of exactly the width as a big-endian unsigned integer and fail otherwise.
NodeFound(present) == present

LookProperty(node, name) == node[name].present

BigEndianUint(b) ==
    [k \in 1..(Len(b) \div 2) |->
        256 * b[Len(b) - 2 * k + 1] + b[Len(b) - 2 * k + 2]]

AsU64Fails(node, name) == Len(node[name].value) /= 8
AsU64(node, name) == BigEndianUint(node[name].value)

AsU32Fails(node, name) == Len(node[name].value) /= 4
AsU32(node, name) == BigEndianUint(node[name].value)

\* return &FdtLoad{...}, nil
FdtLoadSwapped(loadAddr, entryAddr, dataOffset, dataSize) ==
    [Load |-> loadAddr, EntryStart |-> entryAddr,
     DataOffset |-> dataSize, DataSize |-> dataOffset]

FdtLoadOf(loadAddr, entryAddr, dataOffset, dataSize) ==
    [Load |-> loadAddr, EntryStart |-> entryAddr,
     DataOffset |-> dataOffset, DataSize |-> dataSize]

\* return nil, err: no FdtLoad is returned.
NoFdtLoad == FdtLoadOf(U64(0), U64(0), U32(0), U32(0))

Failed(e) == [called |-> TRUE, nil |-> TRUE, info |-> NoFdtLoad, err |-> e]

\* getFdtInfo on a device tree d: Read says whether the blob parsed, Images
\* and Tianocore whether the nodes exist, Props holds tianocore's properties.
getFdtInfo(d) ==
    IF d.Read /= "ok" THEN Failed(ErrFailToReadFdtFile)
    ELSE IF ~NodeFound(d.Images) THEN Failed(ErrNodeImagesNotFound)
    ELSE IF ~NodeFound(d.Tianocore) THEN Failed(ErrNodeTianocoreNotFound)
    ELSE IF ~LookProperty(d.Props, LoadAddrPropertyName)
    THEN Failed(ErrNodeLoadNotFound)
    ELSE IF AsU64Fails(d.Props, LoadAddrPropertyName)
    THEN Failed(ErrFailToConvertLoad)
    ELSE IF ~LookProperty(d.Props, EntryAddrPropertyName)
    THEN Failed(ErrNodeEntryStartNotFound)
    ELSE IF AsU64Fails(d.Props, EntryAddrPropertyName)
    THEN Failed(ErrFailToConvertEntryStart)
    ELSE IF ~LookProperty(d.Props, DataOffsetPropertyName)
    THEN Failed(ErrNodeDataOffsetNotFound)
    ELSE IF AsU32Fails(d.Props, DataOffsetPropertyName)
    THEN Failed(ErrFailToConvertDataOffset)
    ELSE IF ~LookProperty(d.Props, DataSizePropertyName)
    THEN Failed(ErrNodeDataSizeNotFound)
    ELSE IF AsU32Fails(d.Props, DataSizePropertyName)
    THEN Failed(ErrFailToConvertDataSize)
    ELSE [called |-> TRUE, nil |-> FALSE,
          info |-> FdtLoadOf(AsU64(d.Props, LoadAddrPropertyName),
                             AsU64(d.Props, EntryAddrPropertyName),
                             AsU32(d.Props, DataOffsetPropertyName),
                             AsU32(d.Props, DataSizePropertyName)),
          err |-> "nil"]

GetFdtInfo ==
    /\ ~fdtOut.called
    /\ fdtOut' = getFdtInfo(dtb)
    /\ UNCHANGED dtb

\* Property values: 0x800000, 0x805ac3 and a value with eight distinct bytes
\* as 64-bit cells; 0x1000 and 0x89abcdef as 32-bit cells; values of a wrong
\* width; no property.
Cells64 == {<<0, 0, 0, 0, 0, 128, 0, 0>>, <<0, 0, 0, 0, 0, 128, 90, 195>>,
            <<1, 35, 69, 103, 137, 171, 205, 239>>}
Cells32 == {<<0, 0, 16, 0>>, <<137, 171, 205, 239>>}
OddCells == {<< >>, <<0, 0, 1>>}

Absent == [present |-> FALSE, value |-> << >>]
Property(v) == [present |-> TRUE, value |-> v]
Properties(S) == {Property(v) : v \in S} \cup {Absent}

PropNames == {LoadAddrPropertyName, EntryAddrPropertyName,
              DataOffsetPropertyName, DataSizePropertyName}

FdtInit ==
    /\ \E read \in {"ok", "fail"}, images \in BOOLEAN, tianocore \in BOOLEAN :
        \E load \in Properties(Cells64 \cup {<<0, 0, 16, 0>>}),
           entry \in Properties({<<0, 0, 0, 0, 0, 128, 90, 195>>, <<0, 0, 1>>}),
           off \in Properties(Cells32 \cup OddCells),
           size \in Properties(Cells32 \cup {<<0, 0, 0, 0, 0, 128, 0, 0>>}) :
            dtb = [Read |-> read, Images |-> images, Tianocore |-> tianocore,
                   Props |-> [n \in PropNames |->
                       IF n = LoadAddrPropertyName THEN load
                       ELSE IF n = EntryAddrPropertyName THEN entry
                       ELSE IF n = DataOffsetPropertyName THEN off
                       ELSE size]]
    /\ fdtOut = [called |-> FALSE, nil |-> TRUE, info |-> NoFdtLoad, err |-> "nil"]

\* --------------------------------------------------------- alignHOBLength

ErrAlignPadRange == "ErrAlignPadRange"

\* Bound of the model: the longest buffer and the largest small length.
MaxBufLen == 4

\* expectLen > math.MaxInt, int being 64 bits wide.
AboveMaxInt(expectLen) == expectLen[4] >= LimbMod \div 2

\* padLen := int(expectLen) - bufLen, for an expectLen below 2^16.
PadLenFromZero(expectLen, bufLen) == expectLen[1]

PadLen(expectLen, bufLen) == expectLen[1] - bufLen

\* alignHOBLength(expectLen, bufLen, buf): the error returned and the buffer
\* after the call.
alignHOBLength(expectLen, bufLen, buf) ==
    IF LtW(expectLen, U64(bufLen)) THEN [err |-> ErrAlignPadRange, buf |-> buf]
    ELSE IF AboveMaxInt(expectLen) THEN [err |-> ErrAlignPadRange, buf |-> buf]
    ELSE IF PadLen(expectLen, bufLen) > 0
    THEN [err |-> "nil",
          buf |-> buf \o [k \in 1..PadLen(expectLen, bufLen) |-> 0]]
    ELSE [err |-> "nil", buf |-> buf]

AlignHOBLength ==
    /\ alignOut = "pending"
    /\ LET res == alignHOBLength(alignIn.expectLen, alignIn.bufLen, hobBuf) IN
        /\ alignOut' = res.err
        /\ hobBuf' = res.buf
    /\ UNCHANGED alignIn

\* Expected lengths 0..MaxBufLen + 2, 2^63 and 2^64 - 1; lengths from 2^16 up
\* to math.MaxInt, which no buffer can be padded to, are left out. bufLen is
\* a buffer length, so it is not negative.
ExpectLens ==
    {U64(n) : n \in 0..(MaxBufLen + 2)}
    \cup {<<0, 0, 0, LimbMod \div 2>>,
          <<LimbMod - 1, LimbMod - 1, LimbMod - 1, LimbMod - 1>>}

AlignInit ==
    /\ \E e \in ExpectLens, n \in 0..MaxBufLen, len \in 0..MaxBufLen :
        /\ alignIn = [expectLen |-> e, bufLen |-> n, buf |-> [k \in 1..len |-> 16 + k]]
        /\ hobBuf = [k \in 1..len |-> 16 + k]
    /\ alignOut = "pending"

\* ----------------------------------------------------- constructTrampoline

tmpStackSize == 4096
tmpStackTop == 8192

\* stackTop := hobAddr + tmpStackTop
StackTopBySize(hobAddr) == AddW(hobAddr, U64(tmpStackSize))

StackTop(hobAddr) == AddW(hobAddr, U64(tmpStackTop))

\* appendUint64 and appendUint32 of both variants.
appendUint(slice, value) == slice \o LittleEndianPut(value)

\* amd64: seven instruction sequences, then stack top, hobAddr, entry.
constructTrampolineAmd64(buf, hobAddr, entry) ==
    LET loadStackAddress == <<72, 139, 5, 25, 0, 0, 0>>
        setStackAddress == <<72, 137, 196>>
        loadBootparameter == <<72, 139, 5, 23, 0, 0, 0>>
        setBootparameter == <<72, 137, 193>>
        loadKernelAddress == <<72, 139, 5, 21, 0, 0, 0>>
        jumpToKernelAddress == <<255, 224>>
        padForAlignment == <<0, 0, 0>>
        code == buf \o loadStackAddress \o setStackAddress \o loadBootparameter
                    \o setBootparameter \o loadKernelAddress
                    \o jumpToKernelAddress \o padForAlignment
    IN appendUint(appendUint(appendUint(code, StackTop(hobAddr)), hobAddr), entry)

\* arm64: six instruction words, then entry, hobAddr and stack top, each as
\* its low and its high 32 bits. 0x580000c4, 0x580000e0, 0xaa1f03e1,
\* 0x580000e2, 0x9100005f, 0xd61f0080 as uint32 limbs.
Arm64Code == <<<<196, 22528>>, <<224, 22528>>, <<993, 43551>>,
               <<226, 22528>>, <<95, 37120>>, <<128, 54815>>>>

Lo32(v) == SubSeq(v, 1, 2)
Hi32(v) == SubSeq(v, 3, 4)

RECURSIVE appendAll(_, _)
appendAll(slice, values) ==
    IF values = << >> THEN slice
    ELSE appendAll(appendUint(slice, Head(values)), Tail(values))

constructTrampolineArm64(buf, hobAddr, entry) ==
    appendAll(buf, Arm64Code \o <<Lo32(entry), Hi32(entry),
                                  Lo32(hobAddr), Hi32(hobAddr),
                                  Lo32(StackTop(hobAddr)), Hi32(StackTop(hobAddr))>>)

ConstructTrampolineAmd64 ==
    /\ trampIn.arch = "amd64" /\ ~trampIn.done
    /\ trampOut' = constructTrampolineAmd64(trampOut, trampIn.hobAddr, trampIn.entry)
    /\ trampIn' = [trampIn EXCEPT !.done = TRUE]

ConstructTrampolineArm64 ==
    /\ trampIn.arch = "arm64" /\ ~trampIn.done
    /\ trampOut' = constructTrampolineArm64(trampOut, trampIn.hobAddr, trampIn.entry)
    /\ trampIn' = [trampIn EXCEPT !.done = TRUE]

\* Addresses: 0, 0x10005ac3, 2^32 - 0x2000 (the stack top carries into the
\* high half), 2^64 - 0x2000 (it wraps to 0), 0x0123456789abcdef.
Addrs == {U64(0), <<23235, 4096, 0, 0>>, <<LimbMod - 8192, LimbMod - 1, 0, 0>>,
          <<LimbMod - 8192, LimbMod - 1, LimbMod - 1, LimbMod - 1>>,
          <<52719, 35243, 17767, 291>>}

\* Bound of the model: the longest buffer the trampoline is appended to.
MaxTrampBuf == 2

TrampInit ==
    \E arch \in {"amd64", "arm64"}, h \in Addrs, e \in Addrs, n \in 0..MaxTrampBuf :
        /\ trampIn = [arch |-> arch, hobAddr |-> h, entry |-> e, buf |-> [k \in 1..n |-> 200 + k],
                      done |-> FALSE]
        /\ trampOut = [k \in 1..n |-> 200 + k]

\* ------------------------------------- specifications of the pure functions

RelocIdle ==
    /\ blob = << >> /\ fdtLoad = "unused" /\ dst = U64(0) /\ peFile = "unused"
    /\ pc = "unused" /\ status = "unused" /\ start = 0 /\ imgLen = 0
    /\ delta = U64(0) /\ secIdx = 1 /\ relocData = << >> /\ rdOff = 0
    /\ pageRVA = U32(0) /\ entryCount = 0 /\ entryIdx = 0
    /\ blob0 = << >> /\ fdt0 = "unused" /\ walk0 = << >> /\ log = << >>
    /\ walkRet = NoWalk

InitFdt ==
    /\ FdtInit /\ RelocIdle
    /\ alignIn = "unused" /\ hobBuf = << >> /\ alignOut = "unused"
    /\ trampIn = "unused" /\ trampOut = << >>

NextFdt == GetFdtInfo /\ UNCHANGED <<relocVars, alignVars, trampVars>>

SpecFdt == InitFdt /\ [][NextFdt]_vars

InitAlign ==
    /\ AlignInit /\ RelocIdle
    /\ dtb = "unused" /\ fdtOut = "unused"
    /\ trampIn = "unused" /\ trampOut = << >>

NextAlign == AlignHOBLength /\ UNCHANGED <<relocVars, fdtVars, trampVars>>

SpecAlign == InitAlign /\ [][NextAlign]_vars

InitTramp ==
    /\ TrampInit /\ RelocIdle
    /\ dtb = "unused" /\ fdtOut = "unused"
    /\ alignIn = "unused" /\ hobBuf = << >> /\ alignOut = "unused"

NextTramp ==
    \/ (ConstructTrampolineAmd64 /\ UNCHANGED <<relocVars, fdtVars, alignVars>>)
    \/ (ConstructTrampolineArm64 /\ UNCHANGED <<relocVars, fdtVars, alignVars>>)

SpecTramp == InitTramp /\ [][NextTramp]_vars

\* ---------------------------------------- properties of the pure functions

\* The stages of getFdtInfo after the blob is read, in order, each with
\* whether the device tree passes it and the error it fails with.
Stages(d) ==
    <<[ok |-> d.Images, err |-> ErrNodeImagesNotFound],
      [ok |-> d.Tianocore, err |-> ErrNodeTianocoreNotFound],
      [ok |-> d.Props["load"].present, err |-> ErrNodeLoadNotFound],
      [ok |-> Len(d.Props["load"].value) = 8, err |-> ErrFailToConvertLoad],
      [ok |-> d.Props["entry-start"].present, err |-> ErrNodeEntryStartNotFound],
      [ok |-> Len(d.Props["entry-start"].value) = 8, err |-> ErrFailToConvertEntryStart],
      [ok |-> d.Props["data-offset"].present, err |-> ErrNodeDataOffsetNotFound],
      [ok |-> Len(d.Props["data-offset"].value) = 4, err |-> ErrFailToConvertDataOffset],
      [ok |-> d.Props["data-size"].present, err |-> ErrNodeDataSizeNotFound],
      [ok |-> Len(d.Props["data-size"].value) = 4, err |-> ErrFailToConvertDataSize]>>

FailingStages(d) == {k \in DOMAIN Stages(d) : ~Stages(d)[k].ok}

FirstFailing(d) == CHOOSE k \in FailingStages(d) : \A m \in FailingStages(d) : k <= m

\* C6: on a device tree that was read, getFdtInfo returns the four decoded
\* big-endian values when both nodes and all four properties exist and
\* decode, and otherwise nil with the error of the first failing stage in the
\* order images, tianocore, load lookup, load conversion, entry-start lookup,
\* entry-start conversion, data-offset lookup, data-offset conversion,
\* data-size lookup, data-size conversion. load = <0 0x800000> decodes to
\* 0x800000 and data-offset = <0x1000> to 0x1000.
C6_Extraction ==
    (fdtOut.called /\ dtb.Read = "ok") =>
        IF FailingStages(dtb) = {}
        THEN /\ ~fdtOut.nil
             /\ fdtOut.err = "nil"
             /\ fdtOut.info.Load = BigEndianUint(dtb.Props["load"].value)
             /\ fdtOut.info.EntryStart = BigEndianUint(dtb.Props["entry-start"].value)
             /\ fdtOut.info.DataOffset = BigEndianUint(dtb.Props["data-offset"].value)
             /\ fdtOut.info.DataSize = BigEndianUint(dtb.Props["data-size"].value)
             /\ dtb.Props["load"].value = <<0, 0, 0, 0, 0, 128, 0, 0>>
                   => fdtOut.info.Load = <<0, 128, 0, 0>>
             /\ dtb.Props["data-offset"].value = <<0, 0, 16, 0>>
                   => fdtOut.info.DataOffset = <<4096, 0>>
        ELSE /\ fdtOut.nil
             /\ fdtOut.err = Stages(dtb)[FirstFailing(dtb)].err

\* A device tree with both nodes and four decodable properties, data-offset
\* and data-size differing, has been extracted.
C6_Witness ==
    /\ fdtOut.called /\ ~fdtOut.nil
    /\ dtb.Props["load"].value = <<0, 0, 0, 0, 0, 128, 0, 0>>
    /\ dtb.Props["data-offset"].value = <<0, 0, 16, 0>>
    /\ dtb.Props["data-size"].value = <<137, 171, 205, 239>>

\* A uint64 below 2^16.
Small(w) == w[2] = 0 /\ w[3] = 0 /\ w[4] = 0

\* C7: when bufLen <= expectLen <= math.MaxInt, alignHOBLength returns nil
\* and the buffer is its old content followed by exactly expectLen - bufLen
\* zero bytes, so a buffer of length bufLen ends with length expectLen and is
\* unchanged when expectLen = bufLen; when expectLen < bufLen or expectLen >
\* math.MaxInt it returns ErrAlignPadRange and the buffer is unchanged.
C7_Align ==
    alignOut /= "pending" =>
        LET e == alignIn.expectLen
            n == alignIn.bufLen
            old == alignIn.buf
        IN IF Small(e) /\ e[1] >= n
           THEN /\ alignOut = "nil"
                /\ Len(hobBuf) = Len(old) + (e[1] - n)
                /\ SubSeq(hobBuf, 1, Len(old)) = old
                /\ \A k \in (Len(old) + 1)..Len(hobBuf) : hobBuf[k] = 0
                /\ Len(old) = n => Len(hobBuf) = e[1]
                /\ e[1] = n => hobBuf = old
           ELSE ((Small(e) /\ e[1] < n) \/ e[4] >= LimbMod \div 2) =>
                    /\ alignOut = ErrAlignPadRange
                    /\ hobBuf = old

\* A buffer that is not empty, of length bufLen, has been padded.
C7_Witness ==
    /\ alignOut = "nil"
    /\ alignIn.bufLen > 0
    /\ Len(alignIn.buf) = alignIn.bufLen
    /\ Len(hobBuf) > Len(alignIn.buf)

\* The bytes constructTrampoline appended.
Appended == SubSeq(trampOut, Len(trampIn.buf) + 1, Len(trampOut))

\* C8: constructTrampoline returns buf followed by 56 bytes (amd64) or 48
\* bytes (arm64) that are the same for every buf; as little-endian 64-bit
\* values, on amd64 bytes [32,40) hold the stack top, [40,48) hobAddr and
\* [48,56) entry, on arm64 [24,32) hold entry, [32,40) hobAddr and [40,48) the
\* stack top, the stack top being hobAddr + 0x2000 modulo 2^64 (2^64 - 0x2000
\* gives 0, 2^32 - 0x2000 gives 2^32).
C8_Trampoline ==
    trampIn.done =>
        /\ SubSeq(trampOut, 1, Len(trampIn.buf)) = trampIn.buf
        /\ LET top == IF trampIn.arch = "amd64" THEN 32 ELSE 40
               hob == IF trampIn.arch = "amd64" THEN 40 ELSE 32
               ent == IF trampIn.arch = "amd64" THEN 48 ELSE 24
               stackTop == LittleEndianUint(Slice(Appended, top, 8))
           IN /\ Len(Appended) = IF trampIn.arch = "amd64" THEN 56 ELSE 48
              /\ stackTop = AddW(trampIn.hobAddr, U64(8192))
              /\ LittleEndianUint(Slice(Appended, hob, 8)) = trampIn.hobAddr
              /\ LittleEndianUint(Slice(Appended, ent, 8)) = trampIn.entry
              /\ trampIn.hobAddr = <<LimbMod - 8192, LimbMod - 1, LimbMod - 1, LimbMod - 1>>
                    => stackTop = U64(0)
              /\ trampIn.hobAddr = <<LimbMod - 8192, LimbMod - 1, 0, 0>>
                    => stackTop = <<0, 0, 1, 0>>
        /\ Appended = IF trampIn.arch = "amd64"
                      THEN constructTrampolineAmd64(<< >>, trampIn.hobAddr, trampIn.entry)
                      ELSE constructTrampolineArm64(<< >>, trampIn.hobAddr, trampIn.entry)

\* The arm64 trampoline has been appended to a buffer that is not empty, the
\* stack top carrying into the high 32 bits.
C8_Witness ==
    /\ trampIn.done
    /\ trampIn.arch = "arm64"
    /\ Len(trampIn.buf) > 0
    /\ trampIn.hobAddr = <<LimbMod - 8192, LimbMod - 1, 0, 0>>
    /\ trampIn.entry = <<52719, 35243, 17767, 291>>

====
